---- MODULE Spec2Model ----
(***************************************************************************)
(* A model of leaflet.tilelayer.glcolorscale:                              *)
(*   - the fragment shaders (computeColor, isCloseEnough, single.frag,     *)
(*     interpolateValue.frag, interpolateColor.frag),                      *)
(*   - the tile layer GLColorScale (constructor, updateOptions),           *)
(*   - the Renderer (renderTile, renderTiles, the two transitions).        *)
(* Shader floats are modelled as exact rationals <<n, d>>, d > 0, in       *)
(* lowest terms; <<0, 0>> stands for the result of a division by zero.     *)
(***************************************************************************)
EXTENDS Integers, Sequences, FiniteSets, TLC

VARIABLES
    \* ---- GL state of one fragment-shader invocation
    uniforms,      \* colorScale, sentinelValues (A and B), nodataValue, interpolationFraction
    texelA,        \* the float that rgbaToFloat decodes at vTexCoordA (or vTexCoord)
    texelB,        \* the float that rgbaToFloat decodes at vTexCoordB
    oob,           \* what an out-of-range uniform array read yields in this build
    fragOp,        \* which shader program has run ("none" before the draw)
    fragOut,       \* gl_FragColor, or the discard marker
    \* ---- the tile layer GLColorScale
    layer,         \* "none" before the constructor runs, then "ready" or "failed" (it threw)
    options,       \* this.options
    preloadTileCache, \* this._preloadTileCache
    tiles,         \* GridLayer's _tiles: per coordinate, whether present and its el.pixelData
    pending,       \* asynchronous workflows suspended on a fetch
    renderCount,   \* number of calls made on the Renderer so far
    lastRender,    \* the last call made on the Renderer
    calls,         \* number of updateOptions calls made so far
    lastCall,      \* the constructor or updateOptions call made last, and whether it threw
    \* ---- the Renderer
    tileSize,      \* this.tileSize
    textureManager, \* this.textureManager: the atlas that is live
    atlases,       \* every TextureManager created so far: status, tiles added since its last clear
    canvas,        \* width and height of the offscreen canvas
    canvasCoordinates, \* the offsets the last renderTile or renderTiles call returned
    transitions,   \* the runs of the two transition methods
    now,           \* regl.now(), in units of the clock
    rendererOp,    \* the Renderer code that ran last
    glCalls,       \* the addTile and draw calls the last Renderer method made, in order
    \* ---- a mouse event on the layer
    mouse,         \* the tile under the cursor, the position in it, the options
    pixelValue,    \* what _getPixelValue returned
    \* ---- one texel decoded by rgbaToFloat
    texel,         \* the four bytes of the texel and the littleEndian uniform
    decoded        \* the float rgbaToFloat returned

shaderVars == <<uniforms, texelA, texelB, oob, fragOp, fragOut>>

layerVars == <<layer, options, preloadTileCache, tiles, pending, renderCount, lastRender, calls, lastCall>>

rendererVars ==
    <<tileSize, textureManager, atlases, canvas, canvasCoordinates, transitions, now, rendererOp,
      glCalls>>

pixelVars == <<mouse, pixelValue>>

codecVars == <<texel, decoded>>

vars == <<shaderVars, layerVars, rendererVars, pixelVars, codecVars>>

-----------------------------------------------------------------------------
(* Exact arithmetic standing for GLSL float arithmetic.                     *)

Abs(x) == IF x < 0 THEN -x ELSE x

RECURSIVE Gcd(_, _)
Gcd(a, b) == IF b = 0 THEN a ELSE Gcd(b, a % b)

NaN == <<0, 0>>

Norm(n, d) ==
    IF d = 0 THEN NaN
    ELSE LET g == Gcd(Abs(n), Abs(d))
             s == IF d < 0 THEN -1 ELSE 1
         IN  <<(s * n) \div g, (s * d) \div g>>

R(n) == <<n, 1>>

IsNaN(a) == a[2] = 0

RAdd(a, b) == IF IsNaN(a) \/ IsNaN(b) THEN NaN ELSE Norm(a[1] * b[2] + b[1] * a[2], a[2] * b[2])
RSub(a, b) == IF IsNaN(a) \/ IsNaN(b) THEN NaN ELSE Norm(a[1] * b[2] - b[1] * a[2], a[2] * b[2])
RMul(a, b) == IF IsNaN(a) \/ IsNaN(b) THEN NaN ELSE Norm(a[1] * b[1], a[2] * b[2])
RDiv(a, b) == IF IsNaN(a) \/ IsNaN(b) THEN NaN ELSE Norm(a[1] * b[2], a[2] * b[1])
RAbs(a)    == <<Abs(a[1]), a[2]>>
RLt(a, b)  == ~IsNaN(a) /\ ~IsNaN(b) /\ a[1] * b[2] < b[1] * a[2]
RLe(a, b)  == ~IsNaN(a) /\ ~IsNaN(b) /\ a[1] * b[2] <= b[1] * a[2]

\* GLSL mix(x, y, a) = x * (1 - a) + y * a, on floats and componentwise on vec4
MixF(x, y, a) == RAdd(RMul(x, RSub(R(1), a)), RMul(y, a))
MixV(x, y, a) == [k \in 1..4 |-> MixF(x[k], y[k], a)]

Vec4(r, g, b, a) == <<R(r), R(g), R(b), R(a)>>

-----------------------------------------------------------------------------
(* Constants of the program.                                                *)

SCALE_MAX_LENGTH == 16
SENTINEL_MAX_LENGTH == 16
\* interpolateValue.frag and interpolateColor.frag declare their own capacity
FRAG_SCALE_MAX_LENGTH == 16
FRAG_SENTINEL_MAX_LENGTH == 4

RELATIVE_TOLERANCE == <<1, 10000>>

CLEAR_COLOR == Vec4(0, 0, 0, 0)
TRANSPARENT == Vec4(0, 0, 0, 0)
DEFAULT_COLOR_STOP == [color |-> CLEAR_COLOR, offset |-> R(0)]

\* the colours a stop or a sentinel can carry (util.convertColorScale output)
RED   == Vec4(1, 0, 0, 1)
GREEN == Vec4(0, 1, 0, 1)
BLUE  == Vec4(0, 0, 1, 1)
GREY  == Vec4(1, 1, 1, 1)
Palette == <<RED, GREEN, BLUE>>
Discard == <<"discard">>
NoColor == <<"none">>

NoUniforms ==
    [colorScale |-> <<>>, sentinelValues |-> <<>>, colorScaleB |-> <<>>,
     sentinelValuesB |-> <<>>, nodataValue |-> R(0), interpolationFraction |-> R(0)]

ShaderIdle ==
    /\ uniforms = NoUniforms
    /\ texelA = R(0)
    /\ texelB = R(0)
    /\ oob = "zero"
    /\ fragOp = "none"
    /\ fragOut = NoColor

\* bounds of the Renderer runs
MaxTransitions == 2
MaxTime == 3
MaxN == 30
tileCapacity == 2

NoFraction == <<"none">>
NoAtlas == [status |-> "absent", added |-> {}]
NoTransition ==
    [phase |-> "idle", variant |-> "none", n |-> 0, textureA |-> 0, start |-> 0,
     duration |-> 0, registered |-> FALSE, frames |-> 0, lastFraction |-> NoFraction,
     lateFrame |-> FALSE, destroyed |-> -1, promoted |-> -1]
NoOp == [op |-> "none", n |-> 0, transition |-> 0]

\* new Renderer(tileSize, nodataValue): one TextureManager, nothing rendered
RendererInit(ts) ==
    /\ tileSize = ts
    /\ textureManager = 0
    /\ atlases = [a \in 0..MaxTransitions |->
                     IF a = 0 THEN [status |-> "alive", added |-> {}] ELSE NoAtlas]
    /\ canvas = <<0, 0>>
    /\ canvasCoordinates = <<>>
    /\ transitions = [k \in 1..MaxTransitions |-> NoTransition]
    /\ now = 0
    /\ rendererOp = NoOp
    /\ glCalls = <<>>

RendererIdle == RendererInit(256)

NoMouse ==
    [pixelData |-> [present |-> FALSE, words |-> <<>>], tileSize |-> 0, x |-> 0, y |-> 0, nodataValue |-> 0,
     sentinelValues |-> <<>>]

PixelNone == [kind |-> "none", value |-> 0, label |-> ""]

\* no mouse event handled yet
PixelIdle ==
    /\ mouse = NoMouse
    /\ pixelValue = PixelNone

NoTexel == [bytes |-> <<0, 0, 0, 0>>, littleEndian |-> FALSE]

\* a float result: signBit * mantissa * exp2(exponent), kept as its factors
Float(signBit, mantissa, exponent) == [done |-> TRUE, signBit |-> signBit, mantissa |-> mantissa, exponent |-> exponent]

NotDecoded == [done |-> FALSE, signBit |-> 1, mantissa |-> 0, exponent |-> 0]

\* no texel decoded yet
CodecIdle ==
    /\ texel = NoTexel
    /\ decoded = NotDecoded

-----------------------------------------------------------------------------
(* Uniform binding and the shader helpers.                                  *)

\* bindStructArray(max, name): element i of the uniform array is the i-th
\* stop of the prop, or DEFAULT_COLOR_STOP past the prop's end.  An array
\* declared with fewer elements than the prop has drops the rest.
BindStructArray(stops, max) ==
    [i \in 0..(max - 1) |-> IF i < Len(stops) THEN stops[i + 1] ELSE DEFAULT_COLOR_STOP]

\* An indexed read of a uniform array.  An index outside the declared array
\* is undefined in GLSL ES: the build yields zeros or some element of the array.
ReadStop(arr, max, i) ==
    IF i >= 0 /\ i < max THEN arr[i]
    ELSE CASE oob = "zero"  -> [color |-> Vec4(0, 0, 0, 0), offset |-> R(0)]
           [] oob = "first" -> arr[0]
           [] OTHER         -> arr[max - 1]

isCloseEnough(a, b) == RLt(RAbs(RSub(a, b)), RAbs(RMul(a, RELATIVE_TOLERANCE)))

\* computeColor's first loop: the index of the sentinel whose colour is
\* returned, or -1 when the loop ends without returning.
RECURSIVE SentinelScan(_, _, _, _, _)
SentinelScan(inputVal, sentinelArr, sentinelValuesLength, sentinelMax, i) ==
    IF i >= sentinelMax \/ i = sentinelValuesLength THEN -1
    ELSE IF isCloseEnough(inputVal, sentinelArr[i].offset) THEN i
    ELSE SentinelScan(inputVal, sentinelArr, sentinelValuesLength, sentinelMax, i + 1)

MutScaleScanNoMix(inputVal, scaleArr, colorScaleLength, scaleMax, i) == ReadStop(scaleArr, scaleMax, 0).color

\* computeColor's second loop, from index i; vec4(1.0) when the loop runs out.
RECURSIVE ScaleScan(_, _, _, _, _)
ScaleScan(inputVal, scaleArr, colorScaleLength, scaleMax, i) ==
    IF i >= scaleMax THEN Vec4(1, 1, 1, 1)
    ELSE IF i = colorScaleLength
         THEN ReadStop(scaleArr, scaleMax, i - 1).color
    ELSE IF RLe(inputVal, ReadStop(scaleArr, scaleMax, i + 1).offset)
         THEN LET lo == ReadStop(scaleArr, scaleMax, i)
                  hi == ReadStop(scaleArr, scaleMax, i + 1)
                  percent == RDiv(RSub(inputVal, lo.offset), RSub(hi.offset, lo.offset))
              IN  MixV(lo.color, hi.color, percent)
    ELSE ScaleScan(inputVal, scaleArr, colorScaleLength, scaleMax, i + 1)

ScaleBranch(inputVal, scaleArr, colorScaleLength, scaleMax) ==
    IF RLt(inputVal, ReadStop(scaleArr, scaleMax, 0).offset)
    THEN ReadStop(scaleArr, scaleMax, 0).color
    ELSE ScaleScan(inputVal, scaleArr, colorScaleLength, scaleMax, 0)

\* computeColor as compiled with capacities scaleMax and sentinelMax; the
\* arguments are the JS-side stop sequences, bound as uniforms here.
computeColor(inputVal, colorScale, sentinelValues, scaleMax, sentinelMax) ==
    LET scaleArr    == BindStructArray(colorScale, scaleMax)
        sentinelArr == BindStructArray(sentinelValues, sentinelMax)
        hit == SentinelScan(inputVal, sentinelArr, Len(sentinelValues), sentinelMax, 0)
    IN  IF hit >= 0 THEN sentinelArr[hit].color
        ELSE ScaleBranch(inputVal, scaleArr, Len(colorScale), scaleMax)

\* the indices at which computeColor's second loop, from index i on, reads
\* the colorScale array
RECURSIVE ScaleScanReads(_, _, _, _, _)
ScaleScanReads(inputVal, scaleArr, colorScaleLength, scaleMax, i) ==
    IF i >= scaleMax THEN {}
    ELSE IF i = colorScaleLength THEN {i - 1}
    ELSE IF RLe(inputVal, ReadStop(scaleArr, scaleMax, i + 1).offset) THEN {i, i + 1}
    ELSE {i + 1} \cup ScaleScanReads(inputVal, scaleArr, colorScaleLength, scaleMax, i + 1)

\* the indices at which computeColor reads the colorScale array
computeColorReads(inputVal, colorScale, sentinelValues, scaleMax, sentinelMax) ==
    LET scaleArr    == BindStructArray(colorScale, scaleMax)
        sentinelArr == BindStructArray(sentinelValues, sentinelMax)
        hit == SentinelScan(inputVal, sentinelArr, Len(sentinelValues), sentinelMax, 0)
    IN  IF hit >= 0 THEN {}
        ELSE IF RLt(inputVal, ReadStop(scaleArr, scaleMax, 0).offset) THEN {0}
        ELSE {0} \cup ScaleScanReads(inputVal, scaleArr, Len(colorScale), scaleMax, 0)

RECURSIVE isSentinelScan(_, _, _, _)
isSentinelScan(sentinelArr, len, value, i) ==
    IF i >= FRAG_SENTINEL_MAX_LENGTH \/ i = len THEN FALSE
    ELSE IF isCloseEnough(sentinelArr[i].offset, value) THEN TRUE
    ELSE isSentinelScan(sentinelArr, len, value, i + 1)

isSentinelValue(sentinelValues, value) ==
    isSentinelScan(BindStructArray(sentinelValues, FRAG_SENTINEL_MAX_LENGTH),
                   Len(sentinelValues), value, 0)

\* single.frag main
SingleMain(pixelFloatValue, nodataValue, colorScale, sentinelValues) ==
    IF isCloseEnough(pixelFloatValue, nodataValue) THEN Discard
    ELSE computeColor(pixelFloatValue, colorScale, sentinelValues,
                      SCALE_MAX_LENGTH, SENTINEL_MAX_LENGTH)

FragColor(v, colorScale, sentinelValues) ==
    computeColor(v, colorScale, sentinelValues, FRAG_SCALE_MAX_LENGTH, FRAG_SENTINEL_MAX_LENGTH)

\* one source of a transition shader, used alone (fraction <= 0 or >= 1)
FragSingleSource(pixelFloatValue, nodataValue, colorScale, sentinelValues) ==
    IF isCloseEnough(pixelFloatValue, nodataValue) THEN Discard
    ELSE FragColor(pixelFloatValue, colorScale, sentinelValues)

\* interpolateValue.frag main
InterpolateValueMain(valueA, valueB, nodataValue, colorScale, sentinelValues, fraction) ==
    IF RLe(fraction, R(0))
    THEN FragSingleSource(valueA, nodataValue, colorScale, sentinelValues)
    ELSE IF RLe(R(1), fraction)
    THEN FragSingleSource(valueB, nodataValue, colorScale, sentinelValues)
    ELSE LET aIsNodata == isCloseEnough(valueA, nodataValue)
             bIsNodata == isCloseEnough(valueB, nodataValue)
         IN  IF aIsNodata /\ bIsNodata THEN Discard
             ELSE IF \/ aIsNodata
                     \/ bIsNodata
                     \/ isSentinelValue(sentinelValues, valueA)
                     \/ isSentinelValue(sentinelValues, valueB)
             THEN LET colorA == IF aIsNodata THEN TRANSPARENT
                                ELSE FragColor(valueA, colorScale, sentinelValues)
                      colorB == IF bIsNodata THEN TRANSPARENT
                                ELSE FragColor(valueB, colorScale, sentinelValues)
                  IN  MixV(colorA, colorB, fraction)
             ELSE FragColor(MixF(valueA, valueB, fraction), colorScale, sentinelValues)

\* interpolateColor.frag main
InterpolateColorMain(valueA, valueB, nodataValue, colorScaleA, sentinelValuesA, colorScaleB, sentinelValuesB, fraction) ==
    IF RLe(fraction, R(0))
    THEN FragSingleSource(valueA, nodataValue, colorScaleA, sentinelValuesA)
    ELSE IF RLe(R(1), fraction)
    THEN FragSingleSource(valueB, nodataValue, colorScaleB, sentinelValuesB)
    ELSE LET colorA == IF isCloseEnough(valueA, nodataValue) THEN TRANSPARENT
                       ELSE FragColor(valueA, colorScaleA, sentinelValuesA)
             colorB == IF isCloseEnough(valueB, nodataValue) THEN TRANSPARENT
                       ELSE FragColor(valueB, colorScaleB, sentinelValuesB)
         IN  MixV(colorA, colorB, fraction)

-----------------------------------------------------------------------------
(* The tile layer: options, validation, preloading and updates.             *)

MaxCalls == 2
MaxTiles == 1
MaxPending == 2

Absent == "absent"
Undefined == "undefined"
Urls == {"a", "b"}
Coords == 1..MaxTiles

\* Option values for colorScale and sentinelValues: an array object has an
\* identity (compared with ===) and a length.
ScaleObj(id, len) == [id |-> id, len |-> len]
ScaleObjs == { ScaleObj("s0", 0), ScaleObj("s1", 2), ScaleObj("s2", 2),
               ScaleObj("sLong", SCALE_MAX_LENGTH + 1) }
SentinelObjs == { ScaleObj("v0", 0), ScaleObj("v1", 1),
                  ScaleObj("vLong", SENTINEL_MAX_LENGTH + 1) }

defaultOptions ==
    [url |-> Absent, colorScale |-> ScaleObj("s0", 0), sentinelValues |-> ScaleObj("v0", 0),
     preloadUrl |-> Absent, transitions |-> TRUE]

\* A property the argument does not have is Absent (AbsentObj for an array,
\* the empty set for the boolean).
AbsentObj == ScaleObj(Absent, 0)

\* Object.assign({}, defaultOptions, options) and L.Util.setOptions: the
\* properties the argument has replace those of the target.
Merge(target, patch) ==
    [url |-> IF patch.url = Absent THEN target.url ELSE patch.url,
     colorScale |-> IF patch.colorScale = AbsentObj THEN target.colorScale
                    ELSE patch.colorScale,
     sentinelValues |-> IF patch.sentinelValues = AbsentObj THEN target.sentinelValues
                        ELSE patch.sentinelValues,
     preloadUrl |-> IF patch.preloadUrl = Absent THEN target.preloadUrl ELSE patch.preloadUrl,
     transitions |-> IF patch.transitions = {} THEN target.transitions
                     ELSE CHOOSE b \in patch.transitions : TRUE]

NoPatch ==
    [url |-> Absent, colorScale |-> AbsentObj, sentinelValues |-> AbsentObj,
     preloadUrl |-> Absent, transitions |-> {}]

NoCache == [url |-> Undefined, tiles |-> {}]
NoTile == [present |-> FALSE, pixelData |-> Undefined]
NoCall == [op |-> "none", threw |-> FALSE]
NoRender ==
    [op |-> "none", coords |-> {}, colorScale |-> AbsentObj, sentinelValues |-> AbsentObj,
     oldColorScale |-> AbsentObj, oldSentinelValues |-> AbsentObj, url |-> Undefined]

LayerIdle ==
    /\ layer = "none"
    /\ options = defaultOptions
    /\ preloadTileCache = NoCache
    /\ tiles = [c \in Coords |-> NoTile]
    /\ pending = {}
    /\ renderCount = 0
    /\ lastRender = NoRender
    /\ calls = 0
    /\ lastCall = NoCall

\* _checkColorScaleAndSentinels: TRUE when it throws
MutCheckDropsSentinelLimit(opts) ==
    \/ opts.colorScale.len = 0 /\ opts.sentinelValues.len = 0
    \/ opts.colorScale.len > SCALE_MAX_LENGTH

checkColorScaleAndSentinels(opts) ==
    \/ opts.colorScale.len = 0 /\ opts.sentinelValues.len = 0
    \/ opts.colorScale.len > SCALE_MAX_LENGTH
    \/ opts.sentinelValues.len > SENTINEL_MAX_LENGTH

\* _getActiveTiles: the coordinates in _tiles, sorted
getActiveTiles == {c \in Coords : tiles[c].present}

\* a name for a workflow that no suspended workflow carries
FreshId(n) == CHOOSE i \in 0..(Cardinality(pending) + 1) :
    /\ \A t \in pending : t.id # i
    /\ Cardinality({j \in 0..(i - 1) : \A t \in pending : t.id # j}) = n

Task(id, kind, url, coords) ==
    [id |-> id, kind |-> kind, url |-> url, coords |-> coords, cached |-> FALSE,
     prevColorScale |-> AbsentObj, prevSentinelValues |-> AbsentObj,
     prevData |-> [c \in Coords |-> Undefined]]

\* _maybePreload: the preload workflows it starts (at most one)
maybePreload(preloadUrl) ==
    IF preloadUrl # Absent
       /\ (preloadTileCache = NoCache \/ preloadTileCache.url # preloadUrl)
    THEN {Task(FreshId(0), "preload", preloadUrl, getActiveTiles)}
    ELSE {}

MutCacheNeverHits(url, coords) == FALSE

\* _getTilesData: TRUE when the preload cache answers the request
cacheHit(url, coords) ==
    /\ preloadTileCache # NoCache
    /\ url = preloadTileCache.url
    /\ preloadTileCache.tiles = coords

\* the update workflow updateOptions starts for a changed url
updateTask(opts, prev, idOffset) ==
    [ Task(FreshId(idOffset),
           IF opts.transitions THEN "updateWithTransitions" ELSE "update",
           opts.url, getActiveTiles)
      EXCEPT !.cached = cacheHit(opts.url, getActiveTiles),
             !.prevColorScale = prev.colorScale,
             !.prevSentinelValues = prev.sentinelValues,
             !.prevData = [c \in Coords |-> tiles[c].pixelData] ]

\* new GLColorScale(options)
Construct(o) ==
    /\ layer = "none"
    /\ options' = Merge(defaultOptions, o)
    /\ IF checkColorScaleAndSentinels(options')
       THEN /\ layer' = "failed"
            /\ lastCall' = [op |-> "constructor", threw |-> TRUE]
            /\ UNCHANGED pending
       ELSE /\ layer' = "ready"
            /\ lastCall' = [op |-> "constructor", threw |-> FALSE]
            /\ pending' = pending \cup maybePreload(options'.preloadUrl)
    /\ UNCHANGED <<preloadTileCache, tiles, renderCount, lastRender, calls, shaderVars, rendererVars, pixelVars, codecVars>>

\* updateOptions(options)
UpdateOptions(patch) ==
    /\ layer = "ready"
    /\ calls < MaxCalls
    /\ calls' = calls + 1
    /\ options' = Merge(options, patch)
    /\ IF checkColorScaleAndSentinels(options')
       THEN /\ lastCall' = [op |-> "updateOptions", threw |-> TRUE]
            /\ UNCHANGED <<pending, preloadTileCache>>
       ELSE LET pre == maybePreload(options'.preloadUrl)
                upd == IF options'.url # options.url
                       THEN {updateTask(options', options, Cardinality(pre))}
                       ELSE {}
            IN  /\ lastCall' = [op |-> "updateOptions", threw |-> FALSE]
                /\ pending' = pending \cup pre \cup upd
                /\ Cardinality(pending') <= MaxPending
                /\ preloadTileCache' =
                       IF \E t \in upd : t.cached THEN NoCache ELSE preloadTileCache
    /\ UNCHANGED <<layer, tiles, renderCount, lastRender, shaderVars, rendererVars, pixelVars, codecVars>>

\* createTile(coords, done), called by GridLayer for a tile entering the view
CreateTile(c) ==
    /\ layer = "ready"
    /\ ~tiles[c].present
    /\ Cardinality(pending) < MaxPending
    /\ tiles' = [tiles EXCEPT ![c] = [present |-> TRUE, pixelData |-> Undefined]]
    /\ pending' = pending \cup
          {[Task(FreshId(0), "createTile", options.url, {c}) EXCEPT
               !.prevColorScale = options.colorScale,
               !.prevSentinelValues = options.sentinelValues]}
    /\ UNCHANGED <<layer, options, preloadTileCache, renderCount, lastRender, calls,
                   lastCall, shaderVars, rendererVars, pixelVars, codecVars>>

MutSetCurrentUrl(coords, url) == [c \in Coords |-> IF c \in coords THEN [tiles[c] EXCEPT !.pixelData = options.url] ELSE tiles[c]]

\* tile.el.pixelData = the data fetched from url, for every tile of coords
SetPixelData(coords, url) ==
    [c \in Coords |-> IF c \in coords THEN [tiles[c] EXCEPT !.pixelData = url] ELSE tiles[c]]

\* createTile's fetch resolves: renderTile with the scale captured at the call
ResolveCreateTile(t) ==
    /\ t \in pending /\ t.kind = "createTile"
    /\ pending' = pending \ {t}
    /\ renderCount' = renderCount + 1
    /\ lastRender' = [op |-> "renderTile", coords |-> t.coords,
                      colorScale |-> t.prevColorScale,
                      sentinelValues |-> t.prevSentinelValues,
                      oldColorScale |-> AbsentObj, oldSentinelValues |-> AbsentObj,
                      url |-> t.url]
    /\ tiles' = SetPixelData(t.coords, t.url)
    /\ UNCHANGED <<layer, options, preloadTileCache, calls, lastCall, shaderVars, rendererVars, pixelVars, codecVars>>

\* the listeners of the layer's 'load' event: none, or the README's handler
\* that switches to the preloaded tile set, updateOptions({ url }) when the
\* event's url is the preloadUrl
Listeners == {"none", "switch"}

\* _preloadTiles' fetch resolves: _fetchTilesData fires 'load' (its
\* listeners run inside fire), returns, and _preloadTiles stores the tiles
\* in the preload cache.  An updateOptions that throws inside the listener
\* rejects the promise chain, so nothing is stored.
ResolvePreload(t, listener) ==
    /\ t \in pending /\ t.kind = "preload"
    /\ IF listener = "switch" /\ t.url = options.preloadUrl
       THEN /\ options' = Merge(options, [NoPatch EXCEPT !.url = t.url])
            /\ IF checkColorScaleAndSentinels(options')
               THEN /\ lastCall' = [op |-> "onload", threw |-> TRUE]
                    /\ pending' = pending \ {t}
                    /\ UNCHANGED preloadTileCache
               ELSE LET pre == maybePreload(options'.preloadUrl)
                        upd == IF options'.url # options.url
                               THEN {updateTask(options', options, Cardinality(pre))}
                               ELSE {}
                    IN  /\ lastCall' = [op |-> "onload", threw |-> FALSE]
                        /\ pending' = (pending \ {t}) \cup pre \cup upd
                        /\ Cardinality(pending') <= MaxPending
                        /\ preloadTileCache' = [url |-> t.url, tiles |-> t.coords]
       ELSE /\ pending' = pending \ {t}
            /\ preloadTileCache' = [url |-> t.url, tiles |-> t.coords]
            /\ UNCHANGED <<options, lastCall>>
    /\ UNCHANGED <<layer, tiles, renderCount, lastRender, calls, shaderVars, rendererVars,
                   pixelVars, codecVars>>

\* _updateTiles resumes: renderTiles with the current options, pixelData copied
ResolveUpdate(t) ==
    /\ t \in pending /\ t.kind = "update"
    /\ pending' = pending \ {t}
    /\ renderCount' = renderCount + 1
    /\ lastRender' = [op |-> "renderTiles", coords |-> t.coords,
                      colorScale |-> options.colorScale,
                      sentinelValues |-> options.sentinelValues,
                      oldColorScale |-> AbsentObj, oldSentinelValues |-> AbsentObj,
                      url |-> t.url]
    /\ tiles' = SetPixelData(t.coords, t.url)
    /\ UNCHANGED <<layer, options, preloadTileCache, calls, lastCall, shaderVars, rendererVars, pixelVars, codecVars>>

\* _updateTilesWithTransitions resumes: pixelData copied, one of the two
\* transitions started on the Renderer
ResolveUpdateWithTransitions(t) ==
    /\ t \in pending /\ t.kind = "updateWithTransitions"
    /\ pending' = pending \ {t}
    /\ renderCount' = renderCount + 1
    /\ lastRender' = [op |-> IF options.colorScale = t.prevColorScale
                             THEN "renderTilesWithTransition"
                             ELSE "renderTilesWithTransitionAndNewColorScale",
                      coords |-> t.coords, colorScale |-> options.colorScale,
                      sentinelValues |-> options.sentinelValues,
                      oldColorScale |-> t.prevColorScale,
                      oldSentinelValues |-> t.prevSentinelValues, url |-> t.url]
    /\ tiles' = SetPixelData(t.coords, t.url)
    /\ UNCHANGED <<layer, options, preloadTileCache, calls, lastCall, shaderVars, rendererVars, pixelVars, codecVars>>

ConstructorOptions ==
    { [NoPatch EXCEPT !.url = "a", !.colorScale = cs, !.sentinelValues = sv,
                      !.preloadUrl = pu, !.transitions = tr] :
        cs \in {AbsentObj, ScaleObj("s1", 2), ScaleObj("sLong", SCALE_MAX_LENGTH + 1)},
        sv \in {AbsentObj, ScaleObj("v1", 1), ScaleObj("vLong", SENTINEL_MAX_LENGTH + 1)},
        pu \in {Absent, "b"}, tr \in {{}, {FALSE}} }

\* the arguments of updateOptions: one property, or url together with colorScale
\* or with sentinelValues
Patches ==
    {[NoPatch EXCEPT !.url = u] : u \in Urls}
    \cup {[NoPatch EXCEPT !.colorScale = cs] : cs \in ScaleObjs}
    \cup {[NoPatch EXCEPT !.sentinelValues = sv] : sv \in SentinelObjs}
    \cup {[NoPatch EXCEPT !.preloadUrl = "b"]}
    \cup {[NoPatch EXCEPT !.url = "b", !.colorScale = ScaleObj("s2", 2)]}
    \cup {[NoPatch EXCEPT !.url = "b", !.sentinelValues = ScaleObj("v0", 0)]}

InitLayer ==
    /\ ShaderIdle
    /\ LayerIdle
    /\ RendererIdle
    /\ PixelIdle
    /\ CodecIdle

NextLayer ==
    \/ \E o \in ConstructorOptions : Construct(o)
    \/ \E patch \in Patches : UpdateOptions(patch)
    \/ \E c \in Coords : CreateTile(c)
    \/ \E t \in pending : ResolveCreateTile(t)
    \/ \E t \in pending : ResolvePreload(t, "none")
    \/ \E t \in pending : ResolveUpdate(t)
    \/ \E t \in pending : ResolveUpdateWithTransitions(t)

SpecLayer == InitLayer /\ [][NextLayer]_vars

\* the layer with a 'load' listener that may be registered
NextOnload ==
    \/ \E o \in ConstructorOptions : Construct(o)
    \/ \E patch \in Patches : UpdateOptions(patch)
    \/ \E c \in Coords : CreateTile(c)
    \/ \E t \in pending : ResolveCreateTile(t)
    \/ \E t \in pending, listener \in Listeners : ResolvePreload(t, listener)
    \/ \E t \in pending : ResolveUpdate(t)
    \/ \E t \in pending : ResolveUpdateWithTransitions(t)

SpecOnload == InitLayer /\ [][NextOnload]_vars

\* the arguments of updateOptions that change the preload url or the url
PreloadPatches ==
    {[NoPatch EXCEPT !.preloadUrl = u] : u \in {"b", "c"}}
    \cup {[NoPatch EXCEPT !.url = u] : u \in Urls}

\* the layer driven by a script that preloads one tile set after another
NextPreload ==
    \/ \E o \in ConstructorOptions : Construct(o)
    \/ \E patch \in PreloadPatches : UpdateOptions(patch)
    \/ \E c \in Coords : CreateTile(c)
    \/ \E t \in pending : ResolveCreateTile(t)
    \/ \E t \in pending : ResolvePreload(t, "none")
    \/ \E t \in pending : ResolveUpdate(t)
    \/ \E t \in pending : ResolveUpdateWithTransitions(t)

SpecPreload == InitLayer /\ [][NextPreload]_vars

-----------------------------------------------------------------------------
(* Inputs of the shader specifications.                                     *)

MaxShortScale == 3

\* a colour scale of len stops with ascending offsets base, base + 2, ...
Scale(len, base) ==
    [k \in 1..len |-> [color |-> Palette[((k - 1) % 3) + 1], offset |-> R(base + 2 * (k - 1))]]

ScaleLens == (0..MaxShortScale) \cup {SCALE_MAX_LENGTH}
ScaleBases == {-44, -6, 0, 2}
Scales == {Scale(len, base) : len \in ScaleLens, base \in ScaleBases}

SentinelColor(k) == <<R(1), R(1), <<k, 8>>, R(1)>>
Sentinels(offs) ==
    [k \in 1..Len(offs) |-> [color |-> SentinelColor(k), offset |-> R(offs[k])]]
SentinelSets ==
    { Sentinels(<<>>), Sentinels(<<3>>), Sentinels(<<0>>), Sentinels(<<-5, 3>>),
      Sentinels(<<3, 3>>), Sentinels(<<100, 101, 102, 103, 3>>),
      Sentinels(<<10000>>) }

PixelValues == {R(-50), R(-5), R(-3), R(-1), R(0), R(1), R(3), R(30)}
OobChoices == {"zero", "first", "last"}

-----------------------------------------------------------------------------
(* SpecColor: computeColor applied to one value.                            *)

InitColor ==
    /\ \E cs \in Scales, sv \in SentinelSets :
          uniforms = [NoUniforms EXCEPT !.colorScale = cs, !.sentinelValues = sv]
    /\ texelA \in PixelValues
    /\ texelB = R(0)
    /\ oob \in OobChoices
    /\ fragOp = "none"
    /\ fragOut = NoColor
    /\ LayerIdle
    /\ RendererIdle
    /\ PixelIdle
    /\ CodecIdle

RunComputeColor ==
    /\ fragOp = "none"
    /\ fragOp' = "computeColor"
    /\ fragOut' = computeColor(texelA, uniforms.colorScale, uniforms.sentinelValues,
                               SCALE_MAX_LENGTH, SENTINEL_MAX_LENGTH)
    /\ UNCHANGED <<uniforms, texelA, texelB, oob, layerVars, rendererVars, pixelVars, codecVars>>

NextColor == RunComputeColor

SpecColor == InitColor /\ [][NextColor]_vars

-----------------------------------------------------------------------------
(* SpecFrag: one fragment of a draw call of each of the three programs.     *)

FragScales == {Scale(0, 0), Scale(2, -6), Scale(MaxShortScale, 2)}
FragPixels == {R(-50), R(-1), R(0), R(3), R(30), R(10001)}
FragNodata == {R(-50), R(0)}
Fractions == {<<-1, 2>>, R(0), <<1, 2>>, R(1), <<3, 2>>}

InitFrag ==
    /\ \E cs \in FragScales, sv \in SentinelSets,
          svB \in {Sentinels(<<>>), Sentinels(<<3>>)},
          nd \in FragNodata, f \in Fractions :
          /\ Len(cs) + Len(sv) > 0
          /\ uniforms = [colorScale |-> cs, sentinelValues |-> sv,
                         colorScaleB |-> Scale(2, 0), sentinelValuesB |-> svB,
                         nodataValue |-> nd, interpolationFraction |-> f]
    /\ texelA \in FragPixels
    /\ texelB \in FragPixels
    /\ oob \in OobChoices
    /\ fragOp = "none"
    /\ fragOut = NoColor
    /\ LayerIdle
    /\ RendererIdle
    /\ PixelIdle
    /\ CodecIdle

DrawTile ==
    /\ fragOp = "none"
    /\ fragOp' = "single"
    /\ fragOut' = SingleMain(texelA, uniforms.nodataValue, uniforms.colorScale,
                             uniforms.sentinelValues)
    /\ UNCHANGED <<uniforms, texelA, texelB, oob, layerVars, rendererVars, pixelVars, codecVars>>

DrawTileInterpolateValue ==
    /\ fragOp = "none"
    /\ fragOp' = "interpolateValue"
    /\ fragOut' = InterpolateValueMain(texelA, texelB, uniforms.nodataValue,
                      uniforms.colorScale, uniforms.sentinelValues,
                      uniforms.interpolationFraction)
    /\ UNCHANGED <<uniforms, texelA, texelB, oob, layerVars, rendererVars, pixelVars, codecVars>>

DrawTileInterpolateColor ==
    /\ fragOp = "none"
    /\ fragOp' = "interpolateColor"
    /\ fragOut' = InterpolateColorMain(texelA, texelB, uniforms.nodataValue,
                      uniforms.colorScale, uniforms.sentinelValues,
                      uniforms.colorScaleB, uniforms.sentinelValuesB,
                      uniforms.interpolationFraction)
    /\ UNCHANGED <<uniforms, texelA, texelB, oob, layerVars, rendererVars, pixelVars, codecVars>>

NextFrag == DrawTile \/ DrawTileInterpolateValue \/ DrawTileInterpolateColor

SpecFrag == InitFrag /\ [][NextFrag]_vars

-----------------------------------------------------------------------------
(* The Renderer: single renders, batch renders and the two transitions.     *)

TileSizes == {2, 256}
Durations == {2}
BatchSizes == {1, tileCapacity + 1}
Variants == {"renderTilesWithTransition", "renderTilesWithTransitionAndNewColorScale"}

\* the tiles handed to a batch render: n tiles with pairwise distinct
\* coordinates, here the coordinates 1..n in the caller's order
TileCoordinates(n) == 1..n

\* Math.ceil(Math.sqrt(numTiles))
CeilSqrt(n) == CHOOSE a \in 0..n : a * a >= n /\ \A b \in 0..(a - 1) : b * b < n

\* Math.ceil(p / q) for q > 0
CeilDiv(p, q) == (p + q - 1) \div q

MutTilesDownRoundsDown(numTiles) ==
    LET tilesAcross == CeilSqrt(numTiles)
        tilesDown == numTiles \div tilesAcross
    IN  <<tilesAcross * tileSize, tilesDown * tileSize>>

computeRequiredCanvasDimensions(numTiles) ==
    LET tilesAcross == CeilSqrt(numTiles)
        tilesDown == CeilDiv(numTiles, tilesAcross)
    IN  <<tilesAcross * tileSize, tilesDown * tileSize>>

\* util.range(start, end, step): start, start + step, ... below end
range(start, end, step) ==
    [j \in 1..CeilDiv(end - start, step) |-> start + (j - 1) * step]

\* flatMap over the rows, then slice(0, numTiles)
getCanvasCoordinates(canvasWidth, canvasHeight, numTiles) ==
    LET xs == range(0, canvasWidth, tileSize)
        ys == range(0, canvasHeight, tileSize)
        all == [j \in 1..(Len(ys) * Len(xs)) |->
                   <<xs[((j - 1) % Len(xs)) + 1], ys[((j - 1) \div Len(xs)) + 1]>>]
    IN  SubSeq(all, 1, IF numTiles < Len(all) THEN numTiles ELSE Len(all))

Min(p, q) == IF p < q THEN p ELSE q

Range(seq) == {seq[i] : i \in 1..Len(seq)}

MutNoChunking(n, size) == <<[i \in 1..n |-> i]>>

\* lodash chunk(array, size) over the tiles 1..n: consecutive groups of size
\* tiles, the last one possibly shorter
chunk(n, size) ==
    [j \in 1..CeilDiv(n, size) |->
        [i \in 1..Min(size, n - (j - 1) * size) |-> (j - 1) * size + i]]

\* TextureManager.addTile for every tile of a chunk
addTiles(atl, a, coords) == [atl EXCEPT ![a].added = @ \cup coords]

\* TextureManager.clearTiles
clearTiles(atl, a) == [atl EXCEPT ![a].added = {}]

\* the loop "for (const chunk of chunks)" adding each chunk's tiles to atlas a
RECURSIVE addChunks(_, _, _, _)
addChunks(atl, a, chunks, j) ==
    IF j > Len(chunks) THEN atl
    ELSE addChunks(addTiles(atl, a, Range(chunks[j])), a, chunks, j + 1)

\* one call on a TextureManager or one invocation of a draw command
GlCall(call, a, b, tileSeq, fraction) ==
    [call |-> call, atlas |-> a, atlasB |-> b, tiles |-> tileSeq, fraction |-> fraction]

\* chunk.map(tile => textureManager.addTile(...)) on atlas a
addTileCalls(a, ch) == [i \in 1..Len(ch) |-> GlCall("addTile", a, -1, <<ch[i]>>, NoFraction)]

\* the calls of renderTiles' loop from chunk j on: the chunk's addTile calls,
\* then one drawTile invocation for the whole chunk
RECURSIVE renderTilesCalls(_, _, _)
renderTilesCalls(a, chunks, j) ==
    IF j > Len(chunks) THEN <<>>
    ELSE addTileCalls(a, chunks[j])
         \o <<GlCall("drawTile", a, -1, chunks[j], NoFraction)>>
         \o renderTilesCalls(a, chunks, j + 1)

\* the calls of renderFrame's loop from chunk j on: old tiles to atlas a, new
\* tiles to atlas b, then one invocation of the transition's draw command
RECURSIVE renderFrameCalls(_, _, _, _, _, _)
renderFrameCalls(draw, a, b, chunks, fraction, j) ==
    IF j > Len(chunks) THEN <<>>
    ELSE addTileCalls(a, chunks[j]) \o addTileCalls(b, chunks[j])
         \o <<GlCall(draw, a, b, chunks[j], fraction)>>
         \o renderFrameCalls(draw, a, b, chunks, fraction, j + 1)

\* renderTile(tile, colorScale, sentinelValues)
RenderTile(c) ==
    /\ canvas' = <<tileSize, tileSize>>
    /\ atlases' = addTiles(atlases, textureManager, {c})
    /\ canvasCoordinates' = <<<<0, 0>>>>
    /\ rendererOp' = [op |-> "renderTile", n |-> 1, transition |-> 0]
    /\ glCalls' = <<GlCall("addTile", textureManager, -1, <<c>>, NoFraction),
                    GlCall("drawTile", textureManager, -1, <<c>>, NoFraction)>>
    /\ UNCHANGED <<tileSize, textureManager, transitions, now, shaderVars, layerVars, pixelVars, codecVars>>

\* renderTiles(tiles, colorScale, sentinelValues) with n tiles
RenderTiles(n) ==
    LET dims == computeRequiredCanvasDimensions(n)
        chunks == chunk(n, tileCapacity)
    IN  /\ canvas' = dims
        /\ canvasCoordinates' = getCanvasCoordinates(dims[1], dims[2], n)
        /\ atlases' = addChunks(clearTiles(atlases, textureManager), textureManager, chunks, 1)
        /\ rendererOp' = [op |-> "renderTiles", n |-> n, transition |-> 0]
        /\ glCalls' = <<GlCall("clearTiles", textureManager, -1, <<>>, NoFraction)>>
                      \o renderTilesCalls(textureManager, chunks, 1)
        /\ UNCHANGED <<tileSize, textureManager, transitions, now, shaderVars, layerVars, pixelVars, codecVars>>

\* removeTile(tileCoordinates), called for a 'tileunload' event
RemoveTile(c) ==
    /\ rendererOp' = [op |-> "removeTile", n |-> 1, transition |-> 0]
    /\ glCalls' = <<GlCall("removeTile", textureManager, -1, <<c>>, NoFraction)>>
    /\ UNCHANGED <<tileSize, textureManager, atlases, canvas, canvasCoordinates, transitions,
                   now, shaderVars, layerVars, pixelVars, codecVars>>

\* the draw command of each transition method
DrawCommand(variant) ==
    IF variant = "renderTilesWithTransition" THEN "drawTileInterpolateValue"
    ELSE "drawTileInterpolateColor"

\* the closure renderFrame(interpolationFraction) of transition k: every
\* chunk's old tiles go to the captured textureManager, its new tiles to the
\* transition's newTextureManager, then the chunk is drawn
renderFrame(atl, tr, k) ==
    LET chunks == chunk(tr.n, tileCapacity)
    IN  addChunks(addChunks(atl, tr.textureA, chunks, 1), k, chunks, 1)

\* animationHandle.cancel()
MutCancelLeavesCallback(tr) == tr

cancel(tr) == [tr EXCEPT !.registered = FALSE]

\* renderTilesWithTransition / renderTilesWithTransitionAndNewColorScale up
\* to their await: the live atlas is captured, a new one created, the frame
\* callback registered with regl.frame and the timer started
StartTransition(k, variant, n, durationMs) ==
    /\ transitions[k].phase = "idle"
    /\ \A j \in 1..(k - 1) : transitions[j].phase # "idle"
    /\ canvas' = computeRequiredCanvasDimensions(n)
    /\ atlases' = [atlases EXCEPT ![k] = [status |-> "alive", added |-> {}]]
    /\ transitions' = [transitions EXCEPT ![k] =
           [NoTransition EXCEPT !.phase = "running", !.variant = variant, !.n = n,
                                !.textureA = textureManager, !.start = now,
                                !.duration = durationMs, !.registered = TRUE]]
    /\ rendererOp' = [op |-> variant, n |-> n, transition |-> k]
    /\ glCalls' = <<>>
    /\ UNCHANGED <<tileSize, textureManager, canvasCoordinates, now, shaderVars, layerVars, pixelVars, codecVars>>

\* the callback given to regl.frame runs at a display refresh
Frame(k) ==
    LET tr == transitions[k]
    IN  /\ tr.registered
        /\ atlases' = renderFrame(atlases, tr, k)
        /\ transitions' = [transitions EXCEPT ![k] =
               [tr EXCEPT !.frames = 1,
                          !.lastFraction = RDiv(R(now - tr.start), R(tr.duration)),
                          !.lateFrame = (tr.lateFrame \/ tr.phase = "done")]]
        /\ rendererOp' = [op |-> "frame", n |-> tr.n, transition |-> k]
        /\ glCalls' = renderFrameCalls(DrawCommand(tr.variant), tr.textureA, k,
                           chunk(tr.n, tileCapacity),
                           RDiv(R(now - tr.start), R(tr.duration)), 1)
        /\ UNCHANGED <<tileSize, textureManager, canvas, canvasCoordinates, now,
                       shaderVars, layerVars, pixelVars, codecVars>>

MutDestroyAfterAssign(live, new) == new

\* this.textureManager.destroy() runs before this.textureManager = newTextureManager:
\* it destroys the atlas that is live when the method resumes
destroyTarget(live, new) == live

\* util.Timer(transitionDurationMs) resolves and the method resumes: cancel,
\* renderFrame(1), destroy this.textureManager, install newTextureManager
TimerFires(k) ==
    LET tr == transitions[k]
    IN  /\ tr.phase = "running"
        /\ now - tr.start >= tr.duration
        /\ atlases' = [renderFrame(atlases, tr, k) EXCEPT
                           ![destroyTarget(textureManager, k)].status = "destroyed"]
        /\ textureManager' = k
        /\ transitions' = [transitions EXCEPT ![k] =
               [cancel(tr) EXCEPT !.phase = "done", !.lastFraction = R(1),
                                  !.destroyed = destroyTarget(textureManager, k),
                                  !.promoted = k]]
        /\ rendererOp' = [op |-> "finalFrame", n |-> tr.n, transition |-> k]
        /\ glCalls' = renderFrameCalls(DrawCommand(tr.variant), tr.textureA, k,
                           chunk(tr.n, tileCapacity), R(1), 1)
                      \o <<GlCall("destroy", destroyTarget(textureManager, k), -1, <<>>, NoFraction)>>
        /\ UNCHANGED <<tileSize, canvas, canvasCoordinates, now, shaderVars, layerVars, pixelVars, codecVars>>

\* time passes
Tick ==
    /\ now < MaxTime
    /\ now' = now + 1
    /\ UNCHANGED <<tileSize, textureManager, atlases, canvas, canvasCoordinates, transitions,
                   rendererOp, glCalls, shaderVars, layerVars, pixelVars, codecVars>>

InitRenderer ==
    /\ ShaderIdle
    /\ LayerIdle
    /\ RendererIdle
    /\ PixelIdle
    /\ CodecIdle

NextRenderer ==
    \/ \E c \in TileCoordinates(1) : RemoveTile(c)
    \/ \E k \in 1..MaxTransitions, variant \in Variants, n \in BatchSizes, d \in Durations :
          StartTransition(k, variant, n, d)
    \/ \E k \in 1..MaxTransitions : Frame(k)
    \/ \E k \in 1..MaxTransitions : TimerFires(k)
    \/ Tick

SpecRenderer == InitRenderer /\ [][NextRenderer]_vars

\* single and batch renders alone, for every tile count and both tile sizes
InitGrid ==
    /\ ShaderIdle
    /\ LayerIdle
    /\ \E ts \in TileSizes : RendererInit(ts)
    /\ PixelIdle
    /\ CodecIdle

NextGrid ==
    \/ \E c \in TileCoordinates(tileCapacity + 1) : RenderTile(c)
    \/ \E n \in 1..MaxN : RenderTiles(n)

SpecGrid == InitGrid /\ [][NextGrid]_vars

\* one Renderer used by createTile (renderTile), _updateTiles (renderTiles)
\* and _updateTilesWithTransitions at once
NextInterleaved ==
    \/ RenderTile(1)
    \/ \E n \in BatchSizes : RenderTiles(n)
    \/ \E k \in 1..MaxTransitions, variant \in Variants, n \in BatchSizes, d \in Durations :
          StartTransition(k, variant, n, d)
    \/ \E k \in 1..MaxTransitions : Frame(k)
    \/ \E k \in 1..MaxTransitions : TimerFires(k)
    \/ Tick

SpecInterleaved == InitRenderer /\ [][NextInterleaved]_vars

-----------------------------------------------------------------------------
(* Mouse events: the value of the pixel under the cursor.                   *)

PixelTileSize == 2
BYTES_PER_WORD == 4

PixelFloats == {0, 3}
PixelNodataValues == {0, 3, -1}

\* a tile's el.pixelData: absent, or a buffer of tileSize * tileSize floats
PixelBuffers(ts) ==
    {[present |-> FALSE, words |-> <<>>]}
    \cup {[present |-> TRUE, words |-> w] : w \in [1..(ts * ts) -> PixelFloats]}

\* option sentinelValues: the objects are told apart by their label
PixelSentinelSets ==
    { <<>>,
      <<[offset |-> 3, label |-> "a"]>>,
      <<[offset |-> 3, label |-> "a"], [offset |-> 3, label |-> "b"]>>,
      <<[offset |-> 0, label |-> "a"], [offset |-> 3, label |-> "b"]>> }

PixelUndefined == [kind |-> "undefined", value |-> 0, label |-> ""]
PixelSentinel(sv) == [kind |-> "sentinel", value |-> sv.offset, label |-> sv.label]
PixelNumber(v) == [kind |-> "number", value |-> v, label |-> ""]

\* DataView.getFloat32(byteIndex, littleEndian) on a buffer of whole words
getFloat32(words, byteIndex) == words[(byteIndex \div BYTES_PER_WORD) + 1]

\* Array.prototype.find: the index of the first matching sentinel, 0 if none
findSentinel(sentinelValues, v) ==
    IF \E i \in 1..Len(sentinelValues) : sentinelValues[i].offset = v
    THEN CHOOSE i \in 1..Len(sentinelValues) :
             /\ sentinelValues[i].offset = v
             /\ \A j \in 1..(i - 1) : sentinelValues[j].offset # v
    ELSE 0

MutSentinelBeforeNodata(m) ==
    IF ~m.pixelData.present THEN PixelUndefined
    ELSE LET byteIndex == (m.y * m.tileSize + m.x) * BYTES_PER_WORD
             v == getFloat32(m.pixelData.words, byteIndex)
             i == findSentinel(m.sentinelValues, v)
         IN  IF i # 0 THEN PixelSentinel(m.sentinelValues[i])
             ELSE IF v = m.nodataValue THEN PixelUndefined
             ELSE PixelNumber(v)

\* _getPixelValue(tile, coordsInTile)
getPixelValue(m) ==
    IF ~m.pixelData.present THEN PixelUndefined
    ELSE LET byteIndex == (m.y * m.tileSize + m.x) * BYTES_PER_WORD
             v == getFloat32(m.pixelData.words, byteIndex)
             i == findSentinel(m.sentinelValues, v)
         IN  IF v = m.nodataValue THEN PixelUndefined
             ELSE IF i # 0 THEN PixelSentinel(m.sentinelValues[i])
             ELSE PixelNumber(v)

InitPixel ==
    /\ ShaderIdle
    /\ LayerIdle
    /\ RendererIdle
    /\ CodecIdle
    /\ pixelValue = PixelNone
    /\ \E pd \in PixelBuffers(PixelTileSize), x, y \in 0..(PixelTileSize - 1),
          nd \in PixelNodataValues, sv \in PixelSentinelSets :
          mouse = [pixelData |-> pd, tileSize |-> PixelTileSize, x |-> x, y |-> y,
                   nodataValue |-> nd, sentinelValues |-> sv]

\* a wrapped mouse handler runs for a point inside a tile
GetPixelValue ==
    /\ pixelValue = PixelNone
    /\ pixelValue' = getPixelValue(mouse)
    /\ UNCHANGED <<mouse, shaderVars, layerVars, rendererVars, codecVars>>

NextPixel == GetPixelValue

SpecPixel == InitPixel /\ [][NextPixel]_vars

-----------------------------------------------------------------------------
(* The float codec of the shaders (rgbaToFloat.glsl).                       *)

\* the bytes a texel's channels are drawn from
ByteValues == {0, 1, 64, 127, 128, 129, 255}

\* a channel as the sampler delivers it: the byte, normalised to [0, 1]
Channel(byte) == RDiv(R(byte), R(255))

exp2int(k) == 2 ^ k

\* int(x) of a non-negative float
ToInt(x) == x[1] \div x[2]

floatsToBytes(inputFloats, littleEndian) ==
    LET bytes == [c \in 1..4 |-> ToInt(RMul(inputFloats[c], R(255)))]
    IN  IF littleEndian THEN <<bytes[4], bytes[3], bytes[2], bytes[1]>> ELSE bytes

\* the value of acc when the inner loop reaches indexInByte
RECURSIVE accAt(_, _)
accAt(byte, indexInByte) ==
    IF indexInByte = 7 THEN byte
    ELSE accAt(byte, indexInByte + 1) % exp2int(indexInByte + 1)

\* bits[channelIndex * 8 + (7 - indexInByte)], with indices from 0 as in the shader
bytesToBits(bytes) ==
    [k \in 0..31 |->
        LET channelIndex == k \div 8
            indexInByte  == 7 - (k % 8)
        IN  accAt(bytes[channelIndex + 1], indexInByte) >= exp2int(indexInByte)]

BitFloat(bit) == IF bit THEN 1 ELSE 0

RECURSIVE sumBits(_, _, _, _)
sumBits(bits, bitIndex, endBefore, pow2) ==
    IF bitIndex >= endBefore THEN 0
    ELSE BitFloat(bits[bitIndex]) * exp2int(pow2) + sumBits(bits, bitIndex + 1, endBefore, pow2 - 1)

getExponent(bits) == sumBits(bits, 1, 9, 7)

getMantissa(bits, subnormal) == BitFloat(~subnormal) * exp2int(23) + sumBits(bits, 9, 32, 22)

bitsToFloat(bits) ==
    LET signBit   == BitFloat(bits[0]) * (-2) + 1
        exponent  == getExponent(bits)
        subnormal == exponent = 0
        mantissa  == getMantissa(bits, subnormal)
    IN  Float(signBit, mantissa, exponent - 127 - 23)

rgbaToFloat(rgbaFloats, littleEndian) ==
    bitsToFloat(bytesToBits(floatsToBytes(rgbaFloats, littleEndian)))

InitCodec ==
    /\ ShaderIdle /\ LayerIdle /\ RendererIdle /\ PixelIdle
    /\ texel \in [bytes : [1..4 -> ByteValues], littleEndian : BOOLEAN]
    /\ decoded = NotDecoded

\* one fragment decodes its texel
Decode ==
    /\ ~decoded.done
    /\ decoded' = rgbaToFloat([c \in 1..4 |-> Channel(texel.bytes[c])], texel.littleEndian)
    /\ UNCHANGED <<texel, shaderVars, layerVars, rendererVars, pixelVars>>

NextCodec == Decode

SpecCodec == InitCodec /\ [][NextCodec]_vars

-----------------------------------------------------------------------------
(* Claims about the shaders.                                                *)

Ascending(cs) == \A k \in 1..(Len(cs) - 1) : RLt(cs[k].offset, cs[k + 1].offset)
MatchesSentinel(v, sv) == \E k \in 1..Len(sv) : sv[k].offset = v
FirstMatch(v, sv) == CHOOSE k \in 1..Len(sv) :
    /\ sv[k].offset = v
    /\ \A j \in 1..(k - 1) : sv[j].offset # v

\* C1: for a scale of 1..SCALE_MAX_LENGTH ascending stops and an input that
\* equals no sentinel, computeColor returns the first stop's colour for an
\* input below the first offset and the last stop's colour for an input
\* above the last offset.
C1_Clamps ==
    LET cs == uniforms.colorScale
    IN  (/\ fragOp = "computeColor"
         /\ Len(cs) \in 1..SCALE_MAX_LENGTH
         /\ Ascending(cs)
         /\ ~MatchesSentinel(texelA, uniforms.sentinelValues))
        => /\ RLt(texelA, cs[1].offset) => fragOut = cs[1].color
           /\ RLt(cs[Len(cs)].offset, texelA) => fragOut = cs[Len(cs)].color

\* C2: when some sentinel's offset equals the input exactly (the input 0
\* included), computeColor returns the colour of the first such sentinel.
C2_SentinelWins ==
    LET sv == uniforms.sentinelValues
    IN  (fragOp = "computeColor" /\ MatchesSentinel(texelA, sv))
        => fragOut = sv[FirstMatch(texelA, sv)].color

\* C3: a pixel whose decoded value equals the no-data value (0 included) is
\* discarded by the single-tile shader, and by both transition shaders when
\* the fraction is <= 0 (source A) or >= 1 (source B).
C3_NodataDiscarded ==
    LET f  == uniforms.interpolationFraction
        nd == uniforms.nodataValue
    IN  /\ (fragOp = "single" /\ texelA = nd) => fragOut = Discard
        /\ (fragOp \in {"interpolateValue", "interpolateColor"} /\ RLe(f, R(0)) /\ texelA = nd)
              => fragOut = Discard
        /\ (fragOp \in {"interpolateValue", "interpolateColor"} /\ RLe(R(1), f) /\ texelB = nd)
              => fragOut = Discard

\* C8: at fraction 0 the single-scale transition shader gives source A's
\* pixel the outcome the single-tile shader gives it, and at fraction 1 it
\* gives source B's pixel the outcome the single-tile shader gives it.
C8_BoundaryEqualsSingle ==
    LET f == uniforms.interpolationFraction
    IN  fragOp = "interpolateValue" =>
          /\ f = R(0) => fragOut = SingleMain(texelA, uniforms.nodataValue,
                                      uniforms.colorScale, uniforms.sentinelValues)
          /\ f = R(1) => fragOut = SingleMain(texelB, uniforms.nodataValue,
                                      uniforms.colorScale, uniforms.sentinelValues)

\* no sentinel equals the input or is within the shader's tolerance of it
NoSentinelNear(v, sv) ==
    /\ ~MatchesSentinel(v, sv)
    /\ \A k \in 1..Len(sv) : ~isCloseEnough(v, sv[k].offset)

\* the smallest i (stops counted from 0) with v <= o_(i+1)
SmallestPair(v, cs) == CHOOSE i \in 0..(Len(cs) - 2) :
    /\ RLe(v, cs[i + 2].offset)
    /\ \A j \in 0..(i - 1) : ~RLe(v, cs[j + 2].offset)

InScale(v, cs) == Len(cs) >= 2 /\ RLe(cs[1].offset, v) /\ RLe(v, cs[Len(cs)].offset)

\* C15: for a scale with strictly ascending offsets o_0 < ... < o_k and an
\* input v with o_0 <= v <= o_k that matches no sentinel, computeColor
\* returns mix(c_i, c_(i+1), (v - o_i) / (o_(i+1) - o_i)) for the smallest
\* i with v <= o_(i+1); at the midpoint of two stops this is their 50/50 blend.
C15_InterpolatesInRange ==
    LET cs == uniforms.colorScale
        v  == texelA
    IN  (/\ fragOp = "computeColor"
         /\ Len(cs) <= SCALE_MAX_LENGTH
         /\ Ascending(cs)
         /\ InScale(v, cs)
         /\ NoSentinelNear(v, uniforms.sentinelValues))
        => LET i  == SmallestPair(v, cs)
               lo == cs[i + 1]
               hi == cs[i + 2]
           IN  fragOut = MixV(lo.color, hi.color,
                              RDiv(RSub(v, lo.offset), RSub(hi.offset, lo.offset)))

\* an input at the midpoint of two adjacent stops got their 50/50 blend
C15_Witness ==
    LET cs == uniforms.colorScale
    IN  /\ fragOp = "computeColor"
        /\ Ascending(cs)
        /\ NoSentinelNear(texelA, uniforms.sentinelValues)
        /\ \E k \in 1..(Len(cs) - 1) :
              /\ RMul(R(2), texelA) = RAdd(cs[k].offset, cs[k + 1].offset)
              /\ cs[k].color # cs[k + 1].color
              /\ fragOut = MixV(cs[k].color, cs[k + 1].color, <<1, 2>>)
              /\ fragOut # cs[k].color /\ fragOut # cs[k + 1].color

\* the value is the no-data value, exactly or within the shader's tolerance
IsNoData(v, nd) == v = nd \/ isCloseEnough(v, nd)

\* some sentinel's offset is the value, exactly or within the shader's tolerance
IsSentinel(v, sv) ==
    \E k \in 1..Len(sv) : \/ sv[k].offset = v
                          \/ isCloseEnough(sv[k].offset, v)
                          \/ isCloseEnough(v, sv[k].offset)

\* C17: in the single-scale transition shader with 0 < f < 1 the pixel is
\* discarded exactly when both sources are no-data; when one source is
\* no-data or either value matches a sentinel the result is
\* mix(colourA, colourB, f), with transparent for a no-data source;
\* otherwise it is computeColor of mix(valueA, valueB, f).
C17_InterpolateValueCases ==
    LET f   == uniforms.interpolationFraction
        nd  == uniforms.nodataValue
        cs  == uniforms.colorScale
        sv  == uniforms.sentinelValues
        aNd == IsNoData(texelA, nd)
        bNd == IsNoData(texelB, nd)
        colourA == IF aNd THEN TRANSPARENT ELSE FragColor(texelA, cs, sv)
        colourB == IF bNd THEN TRANSPARENT ELSE FragColor(texelB, cs, sv)
    IN  (fragOp = "interpolateValue" /\ RLt(R(0), f) /\ RLt(f, R(1)))
        => /\ fragOut = Discard <=> (aNd /\ bNd)
           /\ (~(aNd /\ bNd) /\ (aNd \/ bNd \/ IsSentinel(texelA, sv) \/ IsSentinel(texelB, sv)))
                 => fragOut = MixV(colourA, colourB, f)
           /\ ~(aNd \/ bNd \/ IsSentinel(texelA, sv) \/ IsSentinel(texelB, sv))
                 => fragOut = FragColor(MixF(texelA, texelB, f), cs, sv)

-----------------------------------------------------------------------------
(* Claims about the tile layer.                                             *)

InvalidOptions(opts) ==
    \/ opts.colorScale.len = 0 /\ opts.sentinelValues.len = 0
    \/ opts.colorScale.len > SCALE_MAX_LENGTH
    \/ opts.sentinelValues.len > SENTINEL_MAX_LENGTH

\* a step that is a call of the constructor or of updateOptions
CallStep == layer' # layer \/ calls' # calls

\* C4: a constructor or updateOptions call whose merged options have both
\* arrays empty, or a colour scale longer than SCALE_MAX_LENGTH, or sentinel
\* values longer than SENTINEL_MAX_LENGTH, throws, and starts no preload
\* fetch, no tile fetch and no render.
C4_InvalidOptionsThrow ==
    [][(CallStep /\ InvalidOptions(options'))
          => /\ lastCall'.threw
             /\ pending' = pending
             /\ renderCount' = renderCount
             /\ lastRender' = lastRender]_vars

C4_Witness ==
    /\ lastCall = [op |-> "updateOptions", threw |-> TRUE]
    /\ options.sentinelValues.len > SENTINEL_MAX_LENGTH
    /\ getActiveTiles # {}

\* C5: an updateOptions call that changes the colour scale and leaves url
\* unchanged starts a re-render of the active tiles (the update workflow,
\* with a transition when transitions is on).
C5_ScaleChangeRerenders ==
    [][(/\ calls' # calls
        /\ ~lastCall'.threw
        /\ options'.colorScale # options.colorScale
        /\ options'.url = options.url
        /\ getActiveTiles # {})
          => \E t \in pending' \ pending :
                 /\ t.kind = IF options'.transitions THEN "updateWithTransitions" ELSE "update"
                 /\ t.coords = getActiveTiles]_vars

-----------------------------------------------------------------------------
(* Claims about the Renderer.                                               *)

\* C6: when a run of either transition method has completed, the last frame
\* it rendered used interpolation fraction exactly 1, and its per-refresh
\* frame callback rendered nothing after the duration timer fired.
C6_LastFrameAtOne ==
    \A k \in 1..MaxTransitions :
        transitions[k].phase = "done"
            => /\ transitions[k].lastFraction = R(1)
               /\ ~transitions[k].lateFrame

C6_Witness ==
    \E j, k \in 1..MaxTransitions :
        /\ transitions[j].phase = "done" /\ transitions[k].phase = "done"
        /\ transitions[j].variant = "renderTilesWithTransition"
        /\ transitions[k].variant = "renderTilesWithTransitionAndNewColorScale"
        /\ transitions[j].frames = 1 /\ transitions[k].frames = 1
        /\ now > transitions[k].start + transitions[k].duration

\* C7: a completed transition destroyed the atlas it sampled as textureA, and
\* installed the atlas it populated as the live atlas, also when another
\* transition was started before it completed.
C7_DestroysItsOldAtlas ==
    \A k \in 1..MaxTransitions :
        transitions[k].phase = "done"
            => /\ transitions[k].destroyed = transitions[k].textureA
               /\ transitions[k].promoted = k

\* C9: after renderTiles, and after every frame of a transition, the number
\* of distinct tile coordinates added to the atlas since its last clearTiles
\* (or its creation) is at most tileCapacity.
C9_AtMostCapacityAdded ==
    /\ rendererOp.op = "renderTiles"
          => Cardinality(atlases[textureManager].added) <= tileCapacity
    /\ rendererOp.op \in {"frame", "finalFrame"}
          => Cardinality(atlases[rendererOp.transition].added) <= tileCapacity

\* C10: renderTiles on n >= 1 tiles returns n offsets, offset i being
\* ((i mod A) * tileSize, (i div A) * tileSize) for A = ceil(sqrt(n)); they
\* are pairwise distinct, every cell lies inside the canvas of A by
\* ceil(n / A) cells, and A - ceil(n / A) is 0 or 1.
C10_GridOffsets ==
    rendererOp.op = "renderTiles" =>
        LET n == rendererOp.n
            offs == canvasCoordinates
        IN  \E A \in 1..n, D \in 1..n :
                /\ (A - 1) * (A - 1) < n /\ n <= A * A
                /\ (D - 1) * A < n /\ n <= D * A
                /\ Len(offs) = n
                /\ \A i \in 0..(n - 1) :
                       offs[i + 1] = <<(i % A) * tileSize, (i \div A) * tileSize>>
                /\ \A i, j \in 1..n : offs[i] = offs[j] => i = j
                /\ canvas = <<A * tileSize, D * tileSize>>
                /\ \A i \in 1..n : /\ offs[i][1] + tileSize <= canvas[1]
                                   /\ offs[i][2] + tileSize <= canvas[2]
                /\ A - D \in {0, 1}

C10_Witness ==
    /\ rendererOp = [op |-> "renderTiles", n |-> 7, transition |-> 0]
    /\ Len(canvasCoordinates) = 7
    /\ canvas = <<3 * tileSize, 3 * tileSize>>

-----------------------------------------------------------------------------
(* Claims about mouse events.                                               *)

\* C11: _getPixelValue returns undefined when the tile has no pixel buffer
\* or the float at word row * tileSize + col equals nodataValue (also when a
\* sentinel has that offset); otherwise the first sentinel whose offset
\* equals the float; otherwise the float itself.
C11_PixelValue ==
    pixelValue # PixelNone =>
        LET sv == mouse.sentinelValues
            v  == mouse.pixelData.words[mouse.y * mouse.tileSize + mouse.x + 1]
            hit == {i \in 1..Len(sv) : sv[i].offset = v}
        IN  IF ~mouse.pixelData.present THEN pixelValue.kind = "undefined"
            ELSE IF v = mouse.nodataValue THEN pixelValue.kind = "undefined"
            ELSE IF hit # {}
                 THEN \E i \in hit :
                          /\ \A j \in hit : i <= j
                          /\ pixelValue = [kind |-> "sentinel", value |-> v,
                                           label |-> sv[i].label]
            ELSE pixelValue = [kind |-> "number", value |-> v, label |-> ""]

C11_Witness ==
    /\ pixelValue.kind = "undefined"
    /\ mouse.pixelData.present
    /\ mouse.x = 1 /\ mouse.y = 0
    /\ mouse.pixelData.words = <<0, 3, 0, 0>>
    /\ mouse.nodataValue = 3
    /\ Len(mouse.sentinelValues) = 2

-----------------------------------------------------------------------------
(* Claims about preloading and updates.                                     *)

UpdateKinds == {"update", "updateWithTransitions"}

\* C12: when a 'load' listener, called for the preload's url, calls
\* updateOptions({url: preloadUrl}), the update it starts takes the
\* preloaded buffers from the cache and no fetch of that url is started.
C12_LoadListenerGetsCache ==
    [][\A t \in pending \ pending' :
          (/\ t.kind = "preload"
           /\ lastCall' = [op |-> "onload", threw |-> FALSE]
           /\ options'.url = t.url
           /\ options.url # t.url)
          => /\ \E u \in pending' \ pending :
                    u.kind \in UpdateKinds /\ u.url = t.url /\ u.cached
             /\ \A w \in pending' \ pending : w.url = t.url => w.cached]_vars

\* C13: when the preload cache holds the tiles of url U for exactly the
\* active tile coordinates, an updateOptions call that sets url to U and
\* leaves preloadUrl alone starts an update that takes the cached buffers,
\* starts no fetch of U, and leaves the preload cache empty.
C13_CachedUpdate ==
    [][(/\ calls' # calls
        /\ ~lastCall'.threw
        /\ preloadTileCache # NoCache
        /\ preloadTileCache.tiles = getActiveTiles
        /\ options'.url = preloadTileCache.url
        /\ options'.url # options.url
        /\ options'.preloadUrl = options.preloadUrl)
          => /\ preloadTileCache' = NoCache
             /\ \E u \in pending' \ pending :
                    /\ u.kind \in UpdateKinds /\ u.cached
                    /\ u.url = preloadTileCache.url /\ u.coords = preloadTileCache.tiles
             /\ \A w \in pending' \ pending : w.url = options'.url => w.cached]_vars

C13_Witness ==
    /\ lastCall = [op |-> "updateOptions", threw |-> FALSE]
    /\ preloadTileCache = NoCache
    /\ \E u \in pending : u.kind \in UpdateKinds /\ u.cached /\ u.coords # {}
                          /\ u.url = options.url

\* C20: a transition started by a url-changing update is the dual-scale
\* variant exactly when the colour scale or the sentinel values differ
\* between the previous and the new options.
C20_VariantByScaleAndSentinels ==
    (/\ lastRender.op \in {"renderTilesWithTransition",
                           "renderTilesWithTransitionAndNewColorScale"}
     /\ lastRender.coords # {}
     /\ lastRender.colorScale.len + lastRender.sentinelValues.len > 0)
        => (lastRender.op = "renderTilesWithTransitionAndNewColorScale"
               <=> (\/ lastRender.colorScale # lastRender.oldColorScale
                    \/ lastRender.sentinelValues # lastRender.oldSentinelValues))

-----------------------------------------------------------------------------
(* Claims about the float codec.                                            *)

\* the texel's four bytes as one word, most significant byte first
WordBytes == IF texel.littleEndian THEN <<texel.bytes[4], texel.bytes[3], texel.bytes[2], texel.bytes[1]>> ELSE texel.bytes

ExponentField == (WordBytes[1] % 128) * 2 + WordBytes[2] \div 128

FractionField == (WordBytes[2] % 128) * 65536 + WordBytes[3] * 256 + WordBytes[4]

SignField == IF WordBytes[1] >= 128 THEN -1 ELSE 1

\* the IEEE-754 single-precision value of the word
Ieee754 ==
    IF ExponentField = 0 THEN Float(SignField, FractionField, -149)
    ELSE Float(SignField, exp2int(23) + FractionField, ExponentField - 150)

\* m * 2^x with the factors of two moved from m into the exponent
RECURSIVE Odd(_, _)
Odd(m, x) == IF m = 0 THEN <<0, 0>> ELSE IF m % 2 = 0 THEN Odd(m \div 2, x + 1) ELSE <<m, x>>

SameFloat(a, b) ==
    /\ Odd(a.mantissa, a.exponent) = Odd(b.mantissa, b.exponent)
    /\ a.mantissa # 0 => a.signBit = b.signBit

\* C14: for every word whose exponent field is not all ones, in either byte
\* order with the matching littleEndian flag, rgbaToFloat returns the word's
\* IEEE-754 value: sign * (2^23 + fraction) * 2^(e - 150) for e in 1..254
\* and sign * fraction * 2^(-149) for e = 0.
C14_DecodesIeee754 ==
    (decoded.done /\ ExponentField # 255) => SameFloat(decoded, Ieee754)

-----------------------------------------------------------------------------
(* Claims about the order of atlas and draw calls.                          *)

DrawPositions == {p \in 1..Len(glCalls) : glCalls[p].call = "drawTile"}

AddPositions == {p \in 1..Len(glCalls) : glCalls[p].call = "addTile"}

\* the position of the draw before position q, 0 when q is the first draw
PreviousDraw(q) == IF \E p \in DrawPositions : p < q
                   THEN CHOOSE p \in DrawPositions : p < q /\ \A r \in DrawPositions : r < q => r <= p
                   ELSE 0

\* C16: renderTiles on n tiles with atlas capacity c issues exactly
\* ceil(n / c) draw invocations, in input order; every tile is drawn in
\* exactly one of them, and the addTile calls of a chunk lie after the
\* previous chunk's draw and before the chunk's own draw.
C16_ChunkedDraws ==
    rendererOp.op = "renderTiles" =>
        LET n     == rendererOp.n
            count == Cardinality(DrawPositions)
        IN  /\ count * tileCapacity >= n
            /\ (count - 1) * tileCapacity < n
            /\ \A t \in 1..n :
                  Cardinality({q \in DrawPositions : t \in Range(glCalls[q].tiles)}) = 1
            /\ \A q \in DrawPositions :
                  LET ch == glCalls[q].tiles
                  IN  /\ Range(ch) \subseteq 1..n
                      /\ \A i \in 1..(Len(ch) - 1) : ch[i] < ch[i + 1]
                      /\ \A p \in DrawPositions : p < q => glCalls[p].tiles[Len(glCalls[p].tiles)] < ch[1]
                      /\ \A i \in 1..Len(ch) :
                            Cardinality({a \in AddPositions :
                                            /\ glCalls[a].tiles = <<ch[i]>>
                                            /\ glCalls[a].atlas = glCalls[q].atlas}) = 1
                      /\ \A a \in AddPositions :
                            (PreviousDraw(q) < a /\ a < q) <=> glCalls[a].tiles[1] \in Range(ch)

\* a batch that needed several chunks, the last one not full
C16_Witness ==
    /\ rendererOp.op = "renderTiles"
    /\ rendererOp.n > 2 * tileCapacity
    /\ rendererOp.n % tileCapacity # 0
    /\ Cardinality(DrawPositions) >= 3
    /\ Cardinality(AddPositions) = rendererOp.n

AtlasWrites == {"addTile", "removeTile", "clearTiles"}

TransitionDraws == {"drawTileInterpolateValue", "drawTileInterpolateColor"}

\* C18: while a transition is running, no addTile, removeTile or clearTiles
\* is applied to its old atlas, neither by a frame of a transition nor by a
\* tile-unload handled in between.
C18_OldAtlasReadOnly ==
    \A k \in 1..MaxTransitions :
        transitions[k].phase = "running"
            => \A p \in 1..Len(glCalls) :
                  glCalls[p].call \in AtlasWrites => glCalls[p].atlas # transitions[k].textureA

\* C19: every interpolationFraction passed to a draw invocation of a
\* transition lies in [0, 1], however the refresh callbacks interleave with
\* the duration timer.
C19_FractionInUnitInterval ==
    \A p \in 1..Len(glCalls) :
        glCalls[p].call \in TransitionDraws
            => RLe(R(0), glCalls[p].fraction) /\ RLe(glCalls[p].fraction, R(1))

-----------------------------------------------------------------------------
(* Claims about overlapping workflows of the layer.                         *)

\* C21: overlapping updates are not sequenced: with transitions off, every
\* update that resolves renders and stores the data of the url it fetched,
\* whatever options.url is by then, so that after two overlapping updates
\* the tiles can hold the earlier url's data with no update in flight.
C21_EachUpdateRendersItsOwn ==
    [][\A t \in pending \ pending' :
          t.kind = "update"
              => /\ lastRender'.op = "renderTiles"
                 /\ lastRender'.url = t.url
                 /\ \A c \in t.coords : tiles'[c].pixelData = t.url]_vars

\* no update in flight, and the tiles show the url of the earlier call
C21_Witness ==
    /\ layer = "ready"
    /\ calls = 2
    /\ \A t \in pending : t.kind \notin UpdateKinds
    /\ lastRender.op = "renderTiles"
    /\ lastRender.url # options.url
    /\ \E c \in Coords : tiles[c].present /\ tiles[c].pixelData = lastRender.url

-----------------------------------------------------------------------------
(* Claims about the lifetime of atlases.                                    *)

AllDraws == TransitionDraws \cup {"drawTile"}

\* the atlases a draw invocation samples
Sampled(call) == {call.atlas, call.atlasB} \ {-1}

\* C22: no draw invocation samples an atlas on which destroy() has been
\* called, for every interleaving of the Renderer's operations.
C22_NoDrawAfterDestroy ==
    [][now' = now =>
          \A p \in 1..Len(glCalls') :
              glCalls'[p].call \in AllDraws
                  => \A a \in Sampled(glCalls'[p]) : atlases[a].status # "destroyed"]_vars

\* C23: the Renderer's live atlas (this.textureManager) is never a destroyed
\* atlas, for every interleaving of transitions.
C23_LiveAtlasAlive == atlases[textureManager].status = "alive"

\* two overlapping transitions have both completed, each destroying the
\* atlas that was live when it completed
C23_Witness ==
    \E j, k \in 1..MaxTransitions :
        /\ j # k
        /\ transitions[j].phase = "done" /\ transitions[k].phase = "done"
        /\ transitions[j].textureA = transitions[k].textureA
        /\ transitions[j].destroyed # transitions[k].destroyed
        /\ atlases[transitions[j].destroyed].status = "destroyed"
        /\ atlases[transitions[k].destroyed].status = "destroyed"
        /\ textureManager \in {j, k}

-----------------------------------------------------------------------------
(* Claims about the stored options.                                         *)

\* C24: once construction has succeeded, the stored options satisfy the
\* configuration invariant in every state, also after an updateOptions call
\* that threw.
C24_StoredOptionsValid == layer = "ready" => ~InvalidOptions(options)

-----------------------------------------------------------------------------
(* Claims about array reads and sentinel tests in the shaders.              *)

\* C25: for every configuration validation accepts (a colour scale of 0 to
\* SCALE_MAX_LENGTH stops, the empty one with sentinels only) and every
\* input, computeColor reads the colorScale array only at indices
\* 0..SCALE_MAX_LENGTH - 1.
C25_ScaleReadsInRange ==
    LET cs == uniforms.colorScale
        sv == uniforms.sentinelValues
    IN  (/\ fragOp = "computeColor"
         /\ Len(cs) + Len(sv) > 0
         /\ Len(cs) <= SCALE_MAX_LENGTH
         /\ Len(sv) <= SENTINEL_MAX_LENGTH)
        => computeColorReads(texelA, cs, sv, SCALE_MAX_LENGTH, SENTINEL_MAX_LENGTH)
               \subseteq 0..(SCALE_MAX_LENGTH - 1)

\* computeColor, as compiled into the transition shaders, returns a sentinel's colour for v
ReturnsSentinelColour(v, sv) ==
    SentinelScan(v, BindStructArray(sv, FRAG_SENTINEL_MAX_LENGTH), Len(sv),
                 FRAG_SENTINEL_MAX_LENGTH, 0) >= 0

\* C26: in the single-scale transition shader isSentinelValue is true for a
\* source value exactly when computeColor would return a sentinel's colour
\* for that value (checked where the shader runs the test, 0 < f < 1).
C26_SentinelTestsAgree ==
    (/\ fragOp = "interpolateValue"
     /\ RLt(R(0), uniforms.interpolationFraction)
     /\ RLt(uniforms.interpolationFraction, R(1)))
        => \A v \in {texelA, texelB} :
              isSentinelValue(uniforms.sentinelValues, v)
                  <=> ReturnsSentinelColour(v, uniforms.sentinelValues)

-----------------------------------------------------------------------------
(* Claims about renders interleaved with a transition.                      *)

\* C27: at every frame a transition renders, the offscreen canvas has the
\* dimensions computed for that transition's tile grid, and every offset
\* given to onFrameRendered addresses a tile cell inside the canvas, also
\* when a single-tile or batch render ran between two frames.
C27_CanvasFitsTransition ==
    rendererOp.op \in {"frame", "finalFrame"} =>
        LET n      == transitions[rendererOp.transition].n
            dims   == computeRequiredCanvasDimensions(n)
            coords == getCanvasCoordinates(dims[1], dims[2], n)
        IN  /\ canvas = dims
            /\ \A i \in 1..Len(coords) :
                  /\ coords[i][1] + tileSize <= canvas[1]
                  /\ coords[i][2] + tileSize <= canvas[2]

-----------------------------------------------------------------------------
(* Claims about the data handed to the Renderer and the preload cache.      *)

\* C28: every active tile handed to a transition as old data has its
\* pixelData set, also when the url-changing updateOptions came before the
\* tile's initial fetch in createTile resolved.
C28_OldDataDefined ==
    [][\A t \in pending \ pending' :
          t.kind = "updateWithTransitions"
              => \A c \in t.coords : t.prevData[c] # Undefined]_vars

\* C29: whenever no preload fetch is in flight and the preload cache is not
\* empty, the cache's url is the preloadUrl requested last, whatever the
\* order in which overlapping preload fetches resolved.
C29_CacheHoldsLastPreloadUrl ==
    (/\ layer = "ready"
     /\ \A t \in pending : t.kind # "preload"
     /\ preloadTileCache # NoCache)
        => preloadTileCache.url = options.preloadUrl

====
